---- MODULE Spec2Model ----
(***************************************************************************)
(* Model of backend/main.py: the upload/indexing pipeline                  *)
(* (upload_file_endpoint, upload_generator, index_file_streaming,          *)
(* build_multimodal_elements_streaming), the streaming query pipeline      *)
(* (query_chat_endpoint, answer_generator) and chat deletion               *)
(* (delete_chat_endpoint) over the persisted FAISS index, the              *)
(* LocalFileStore docstore, documents.json and chat_history.json.          *)
(* Spec handles requests one at a time, SpecLife follows uploads and       *)
(* deletions over more requests, SpecConc interleaves the handlers,        *)
(* SpecChat follows several queries on a conversation, SpecRetrieve runs   *)
(* the retrieval step of a query on a filled index.                        *)
(***************************************************************************)
EXTENDS Integers, Sequences, FiniteSets, TLC

(* ----------------------------- bounds --------------------------------- *)
\* elements (images + tables + text chunks) of one uploaded document
MaxElems == 2
\* pages of one uploaded document
MaxPages == 2
\* requests (uploads and queries) in one behaviour
MaxRequests == 2
\* largest k of a QueryRequest
MaxK == 2
\* fragments the generative model streams for one answer
MaxFragments == 2
\* requests (uploads and deletions) in one behaviour of the document lifecycle
MaxLifeRequests == 4
\* requests in one behaviour of concurrently handled requests
MaxConcRequests == 3
\* requests being handled at the same time
MaxInFlight == 2
\* uploads among the concurrently handled requests
MaxConcUploads == 2
\* requests (one after the other) in one behaviour of the conversation runs
MaxChatRequests == 4
\* largest k of a QueryRequest in the retrieval runs
MaxMatches == 5
\* indexed elements whose docstore entry is missing in the retrieval runs
MaxMissing == 1

(* --------------------------- value domains ----------------------------- *)
\* display names of uploaded files; the suffix selects the partitioner
Names == {"a.pdf", "b.docx", "c.txt"}

Suffix(name) ==
    CASE name = "a.pdf" -> ".pdf"
      [] name = "b.docx" -> ".docx"
      [] OTHER -> ".txt"

\* load_file: the suffixes a partitioner exists for
SupportedSuffixes == {".pdf", ".docx", ".pptx"}

\* X-API-Key header of a request: absent, rejected by the provider, accepted
Keys == {"none", "bad", "good"}

\* Python's None for a module-level handle
None == "None"

\* the module-level llm handle: set to None at startup and never rebound
llm == None

\* outcome of awaiting handle.ainvoke(...): an unbound handle always raises
AInvokeOutcomes(handle) == IF handle = None THEN {"raise"} ELSE {"ok", "raise"}

\* metadata without a doc_id (the placeholder document) / dict without "page"
NoId == 0
NoPage == 0

\* content of an element: which file, which kind, which page, which occurrence
NoContent == [file |-> "", kind |-> "", page |-> 0, n |-> 0]
Content(name, kind, page, n) == [file |-> name, kind |-> kind, page |-> page, n |-> n]

NoSummary == [tag |-> "", body |-> NoContent]

(* ------------------------------ summarizers ---------------------------- *)
\* a summarize_image_async whose except clause returns nothing
SummarizeImageNoFallback(original, outcome) ==
    IF outcome = "ok" THEN [tag |-> "llm", body |-> original] ELSE NoSummary

\* summarize_image_async: the model's description, or the fixed marker on any exception
SummarizeImage(original, outcome) ==
    IF outcome = "ok"
    THEN [tag |-> "llm", body |-> original]
    ELSE [tag |-> "Image content could not be analyzed.", body |-> NoContent]

\* summarize_table_async: the model's digest, or "Table content: " + table_text[:500]
SummarizeTable(original, outcome) ==
    IF outcome = "ok"
    THEN [tag |-> "llm", body |-> original]
    ELSE [tag |-> "Table content: ", body |-> original]

\* summarize_text_async: the chunk as it is, prefixed for chunk 0 of page 1
SummarizeText(original, page_num, chunk_idx) ==
    IF page_num = 1 /\ chunk_idx = 0
    THEN [tag |-> "This document/research paper discusses: ", body |-> original]
    ELSE [tag |-> "as-is", body |-> original]

\* the coroutine all_tasks holds for one element
Summarize(elem, outcome) ==
    CASE elem.type = "image" -> SummarizeImage(elem.original, outcome)
      [] elem.type = "table" -> SummarizeTable(elem.original, outcome)
      [] OTHER -> SummarizeText(elem.original, elem.page, elem.idx)

(* ------------------------------ documents ------------------------------ *)
RECURSIVE SumTo(_, _)
SumTo(f, n) == IF n = 0 THEN 0 ELSE f[n] + SumTo(f, n - 1)

\* what the partitioner and the splitter find in a file: images, tables and
\* the number of chunks of each page's text
RawDocs ==
    {d \in [imgs : 0..MaxElems, tabs : 0..MaxElems, txt : [1..MaxPages -> 0..MaxElems]] :
        d.imgs + d.tabs + SumTo(d.txt, MaxPages) <= MaxElems}

NoDoc == [imgs |-> 0, tabs |-> 0, txt |-> [pg \in 1..MaxPages |-> 0]]

Element(id, type, name, fp, page, n) ==
    [doc_id |-> id, type |-> type, original |-> Content(name, type, page, n),
     source |-> fp, page |-> page, idx |-> n, summary |-> NoSummary]

\* image_elements_to_process: one dict per image, each with a fresh uuid
ImageElements(d, name, fp, base) ==
    [i \in 1..d.imgs |-> Element(base + i, "image", name, fp, 1, i - 1)]

\* table_elements_to_process: no "page" key
TableElements(d, name, fp, base) ==
    [i \in 1..d.tabs |-> Element(base + i, "table", name, fp, NoPage, i - 1)]

RECURSIVE TextElementsUpTo(_, _, _, _, _)
\* text_elements_to_process: per page, the chunks in split order with chunk_index
TextElementsUpTo(d, name, fp, base, pg) ==
    IF pg = 0 THEN <<>>
    ELSE LET before == TextElementsUpTo(d, name, fp, base, pg - 1)
         IN before \o [i \in 1..d.txt[pg] |->
                          Element(base + Len(before) + i, "text", name, fp, pg, i - 1)]

TextElements(d, name, fp, base) == TextElementsUpTo(d, name, fp, base, MaxPages)

(* ------------------------------- state --------------------------------- *)
VARIABLES
    uuid,          \* uuid.uuid4(): the number of ids handed out so far
    clock,         \* datetime.now(): the number of timestamps taken so far
    files,         \* the files under uploads/
    docstore,      \* LocalFileStore under docstore/: element id -> stored element
    indexFile,     \* whether faiss_index/index.faiss exists
    diskIndex,     \* the documents of the persisted FAISS index
    documents,     \* documents.json: the manifest, a list of Document records
    chat_history,  \* chat_history.json: chat id -> conversation
    uploads,       \* upload requests received so far
    queries,       \* query requests received so far
    deletes,       \* delete requests received so far
    up,            \* per upload request: the locals of its handler and generators
    qr,            \* per query request: the locals of its handler and generator
    dl             \* per delete request: the locals of its handler

vars == <<uuid, clock, files, docstore, indexFile, diskIndex, documents,
          chat_history, uploads, queries, deletes, up, qr, dl>>

UploadProcs == {"u1", "u2"}
QueryProcs == {"q1"}
DeleteProcs == {"d1"}

\* uploads/<doc_id><suffix>
NoPath == [stem |-> NoId, suffix |-> ""]
UploadPath(doc_id, name) == [stem |-> doc_id, suffix |-> Suffix(name)]

NoStats == [images |-> 0, tables |-> 0, texts |-> 0]
NoRecord == [id |-> NoId, name |-> "", path |-> NoPath, uploadedAt |-> 0,
             preview |-> "", stats |-> NoStats]
NoChat == [id |-> NoId, document_id |-> NoId, created_at |-> 0, title |-> "",
           messages |-> <<>>]

\* Document(page_content="initial empty doc"): no metadata at all
Placeholder ==
    [page_content |-> [tag |-> "initial empty doc", body |-> NoContent],
     doc_id |-> NoId, type |-> "", page |-> NoPage, chunk |-> 0]

\* a summary document whose metadata lacks the doc_id
SummaryDocNoId(elem) ==
    [page_content |-> elem.summary, doc_id |-> NoId, type |-> elem.type,
     page |-> elem.page, chunk |-> elem.idx]

\* the summary document index_file_streaming embeds for one element
SummaryDoc(elem) ==
    [page_content |-> elem.summary, doc_id |-> elem.doc_id, type |-> elem.type,
     page |-> elem.page, chunk |-> elem.idx]

\* one progress event of the upload stream: {"step": ..., "message": ...}
Ev(step, text, i, n) == [step |-> step, message |-> <<text, i, n>>]

\* outcome of a call that reaches the embedding provider with this api key
EmbedOutcomes(key) == IF key = "good" THEN {"ok", "raise"} ELSE {"raise"}

\* outcome of a call into a parser, the file system or the index library
IOOutcomes == {"ok", "raise"}

IdleUpload ==
    [pc |-> "idle", http |-> 0, key |-> "none", filename |-> "", doc_id |-> NoId,
     fp |-> NoPath, vs |-> {}, raw |-> NoDoc, elems |-> <<>>, todo |-> {},
     summaries |-> <<>>, taskResult |-> <<>>, total_indexed |-> 0, docs |-> <<>>,
     taskOutcome |-> <<>>, record |-> NoRecord, chats |-> <<>>, chat |-> NoChat,
     exc |-> "", events |-> <<>>]

IdleQuery ==
    [pc |-> "idle", http |-> 0, key |-> "none", chat_id |-> NoId, k |-> 0,
     chats |-> <<>>, summary_docs |-> <<>>, originals |-> <<>>, context |-> <<>>,
     prompt_images |-> <<>>, invoked |-> FALSE, raised |-> FALSE, received |-> 0,
     full_answer |-> <<>>, error_msg |-> "", abandoned |-> FALSE, events |-> <<>>]

IdleDelete ==
    [pc |-> "idle", http |-> 0, chat_id |-> NoId, chats |-> <<>>,
     document_id |-> NoId, docs |-> <<>>, doc_to_delete |-> NoRecord,
     document_deleted |-> FALSE]

\* the locals of a handler that has returned are gone
Forget(procs, idle) == [q \in DOMAIN procs |-> IF procs[q].pc = "done" THEN idle ELSE procs[q]]

Init ==
    /\ uuid = 0
    /\ clock = 0
    /\ files = {}
    /\ docstore = <<>>
    /\ indexFile = FALSE
    /\ diskIndex = {}
    /\ documents = <<>>
    /\ chat_history = <<>>
    /\ uploads = 0
    /\ queries = 0
    /\ deletes = 0
    /\ up = [p \in UploadProcs |-> IdleUpload]
    /\ qr = [p \in QueryProcs |-> IdleQuery]
    /\ dl = [p \in DeleteProcs |-> IdleDelete]

\* no request is being handled
Quiet ==
    /\ \A p \in UploadProcs : up[p].pc \in {"idle", "done"}
    /\ \A p \in QueryProcs : qr[p].pc \in {"idle", "done"}
    /\ \A p \in DeleteProcs : dl[p].pc \in {"idle", "done"}

\* the requests received so far
Requests == uploads + queries + deletes

(* --------------------------- shared helpers ---------------------------- *)
\* a get_vectorstore whose fresh index holds nothing
GetVectorstoreNoPlaceholder(exists, disk, outcome) ==
    IF exists
    THEN [raised |-> FALSE, vs |-> disk, exists |-> TRUE, disk |-> disk]
    ELSE IF outcome = "ok"
         THEN [raised |-> FALSE, vs |-> {}, exists |-> TRUE, disk |-> {}]
         ELSE [raised |-> TRUE, vs |-> {}, exists |-> exists, disk |-> disk]

\* get_vectorstore: load the persisted index, or build and save a fresh one
\* holding the placeholder (which embeds it, so the provider is called)
GetVectorstore(exists, disk, outcome) ==
    IF exists
    THEN [raised |-> FALSE, vs |-> disk, exists |-> TRUE, disk |-> disk]
    ELSE IF outcome = "ok"
         THEN [raised |-> FALSE, vs |-> {Placeholder}, exists |-> TRUE,
               disk |-> {Placeholder}]
         ELSE [raised |-> TRUE, vs |-> {}, exists |-> exists, disk |-> disk]

\* an mset that loses the write
MSetLost(store, key, value) == store

\* docstore.mset([(key, value)]): unconditional upsert
MSet(store, key, value) ==
    [k \in (DOMAIN store) \cup {key} |-> IF k = key THEN value ELSE store[k]]

\* an except clause that reports a fixed text instead of str(e)
UploadRaiseGeneric(u, msg) ==
    [u EXCEPT !.pc = "done", !.exc = msg,
        !.events = Append(@, Ev("error", "Internal error", 0, 0))]

\* upload_generator's except clause for the exception msg: one error event
\* with str(e), then the generator ends
UploadRaise(u, msg) ==
    [u EXCEPT !.pc = "done", !.exc = msg,
        !.events = Append(@, Ev("error", msg, 0, 0))]

\* an assignment that walks the elements from the last to the first
AssignSummariesBackwards(elems, summaries) ==
    [j \in 1..Len(elems) |->
        [elems[Len(elems) + 1 - j] EXCEPT !.summary = summaries[j]]]

\* "Assign summaries back to elements": images, tables, texts in list order,
\* each taking the next entry of summaries
AssignSummaries(elems, summaries) ==
    [j \in 1..Len(elems) |-> [elems[j] EXCEPT !.summary = summaries[j]]]

(* --------------------------- upload pipeline --------------------------- *)
\* POST /upload (upload_file_endpoint): the api key header is required, the file
\* is saved under uploads/ with a fresh document id, then the stream starts
UploadFileEndpoint(p) ==
    /\ up[p].pc \in {"idle", "done"}
    /\ uploads' = uploads + 1
    /\ \E key \in Keys, name \in Names, io \in IOOutcomes :
         IF key = "none"
         THEN /\ up' = [Forget(up, IdleUpload) EXCEPT ![p] =
                          [IdleUpload EXCEPT !.pc = "done", !.http = 401]]
              /\ UNCHANGED <<uuid, files>>
         ELSE /\ uuid' = uuid + 1
              /\ IF io = "raise"
                 THEN /\ up' = [Forget(up, IdleUpload) EXCEPT ![p] =
                                  [IdleUpload EXCEPT !.pc = "done", !.http = 500]]
                      /\ UNCHANGED files
                 ELSE /\ up' = [Forget(up, IdleUpload) EXCEPT ![p] =
                                  [IdleUpload EXCEPT !.pc = "setup", !.http = 200,
                                      !.key = key, !.filename = name,
                                      !.doc_id = uuid + 1,
                                      !.fp = UploadPath(uuid + 1, name)]]
                      /\ files' = files \cup {UploadPath(uuid + 1, name)}
    /\ qr' = Forget(qr, IdleQuery)
    /\ dl' = Forget(dl, IdleDelete)
    /\ UNCHANGED <<clock, docstore, indexFile, diskIndex, documents, chat_history,
                   queries, deletes>>

\* upload_generator yields "setup"; index_file_streaming gets the vectorstore
\* and yields "extraction"
StartIndexing(p) ==
    /\ up[p].pc = "setup"
    /\ \E o \in EmbedOutcomes(up[p].key) :
         LET u == [up[p] EXCEPT !.events = Append(@, Ev("setup", "Starting", 0, 0))]
             g == GetVectorstore(indexFile, diskIndex, o)
         IN /\ indexFile' = g.exists
            /\ diskIndex' = g.disk
            /\ up' = [up EXCEPT ![p] =
                 IF g.raised
                 THEN UploadRaise(u, "get_vectorstore")
                 ELSE [u EXCEPT !.pc = "load", !.vs = g.vs,
                          !.events = Append(@, Ev("extraction", "Processing file", 0, 0))]]
    /\ UNCHANGED <<uuid, clock, files, docstore, documents, chat_history, uploads,
                   queries, qr>>
    /\ UNCHANGED <<deletes, dl>>

\* build_multimodal_elements_streaming: yields "extracting", then load_file
LoadFile(p) ==
    /\ up[p].pc = "load"
    /\ LET u == [up[p] EXCEPT !.events = Append(@, Ev("extracting", "Partitioning", 0, 0))]
       IN IF Suffix(u.filename) \notin SupportedSuffixes
          THEN up' = [up EXCEPT ![p] = UploadRaise(u, "Unsupported file type")]
          ELSE \E io \in IOOutcomes :
                 IF io = "raise"
                 THEN up' = [up EXCEPT ![p] = UploadRaise(u, "load_file")]
                 ELSE \E d \in RawDocs :
                        up' = [up EXCEPT ![p] = [u EXCEPT !.pc = "images", !.raw = d]]
    /\ UNCHANGED <<uuid, clock, files, docstore, indexFile, diskIndex, documents,
                   chat_history, uploads, queries, qr>>
    /\ UNCHANGED <<deletes, dl>>

\* yields "extracting" (images), builds the image dicts, yields "extracting"
\* (tables), builds the table dicts
ImageAndTableProcessing(p) ==
    /\ up[p].pc = "images"
    /\ \E io \in IOOutcomes :
         LET u0 == up[p]
             u == [u0 EXCEPT !.events = Append(@, Ev("extracting", "Found images", 0, 0))]
             imgs == ImageElements(u0.raw, u0.filename, u0.fp, uuid)
             tabs == TableElements(u0.raw, u0.filename, u0.fp, uuid + Len(imgs))
         IN IF io = "raise"
            THEN /\ up' = [up EXCEPT ![p] = UploadRaise(u, "image extraction")]
                 /\ UNCHANGED uuid
            ELSE /\ up' = [up EXCEPT ![p] =
                      [u EXCEPT !.pc = "chunk", !.elems = imgs \o tabs,
                          !.events = Append(@, Ev("extracting", "Found tables", 0, 0))]]
                 /\ uuid' = uuid + Len(imgs) + Len(tabs)
    /\ UNCHANGED <<clock, files, docstore, indexFile, diskIndex, documents,
                   chat_history, uploads, queries, qr>>
    /\ UNCHANGED <<deletes, dl>>

\* if there is text (every page with text gives at least one chunk): yields
\* "chunking", splits each page, yields "chunking";
\* then yields "summarizing" and creates one summarization task per element
Chunking(p) ==
    /\ up[p].pc = "chunk"
    /\ \E io \in IOOutcomes :
         LET u0 == up[p]
             hasText == SumTo(u0.raw.txt, MaxPages) > 0
             u == IF hasText
                  THEN [u0 EXCEPT !.events = Append(@, Ev("chunking", "Splitting", 0, 0))]
                  ELSE u0
             txts == TextElements(u0.raw, u0.filename, u0.fp, uuid)
             all == u0.elems \o txts
             evs == IF hasText
                    THEN <<Ev("chunking", "Created", Len(txts), 0),
                           Ev("summarizing", "Starting", 0, Len(all))>>
                    ELSE <<Ev("summarizing", "Starting", 0, Len(all))>>
         IN IF hasText /\ io = "raise"
            THEN /\ up' = [up EXCEPT ![p] = UploadRaise(u, "split_text")]
                 /\ UNCHANGED uuid
            ELSE /\ up' = [up EXCEPT ![p] =
                      [u EXCEPT !.pc = "summarizing", !.elems = all,
                          !.todo = 1..Len(all),
                          !.taskResult = [j \in 1..Len(all) |-> NoSummary],
                          !.taskOutcome = [j \in 1..Len(all) |-> ""],
                          !.events = @ \o evs]]
                 /\ uuid' = uuid + Len(txts)
    /\ UNCHANGED <<clock, files, docstore, indexFile, diskIndex, documents,
                   chat_history, uploads, queries, qr>>
    /\ UNCHANGED <<deletes, dl>>

\* a completion loop that reports i instead of i+1
SummarizeNextZeroBased(p) ==
    /\ up[p].pc = "summarizing"
    /\ \E j \in up[p].todo, o \in AInvokeOutcomes(llm) :
         LET u == up[p]
             summary == Summarize(u.elems[j], o)
         IN up' = [up EXCEPT ![p] =
              [u EXCEPT !.todo = @ \ {j},
                  !.summaries = Append(@, summary),
                  !.taskResult[j] = summary,
                  !.taskOutcome[j] = IF u.elems[j].type = "text" THEN "none" ELSE o,
                  !.events = Append(@, Ev("summarizing", "Summarized",
                                          Len(u.summaries), Len(u.elems)))]]
    /\ UNCHANGED <<uuid, clock, files, docstore, indexFile, diskIndex, documents,
                   chat_history, uploads, queries, qr>>
    /\ UNCHANGED <<deletes, dl>>

\* one turn of "for i, coro in enumerate(asyncio.as_completed(all_tasks))":
\* whichever task finishes next hands over its result
SummarizeNext(p) ==
    /\ up[p].pc = "summarizing"
    /\ \E j \in up[p].todo, o \in AInvokeOutcomes(llm) :
         LET u == up[p]
             summary == Summarize(u.elems[j], o)
         IN up' = [up EXCEPT ![p] =
              [u EXCEPT !.todo = @ \ {j},
                  !.summaries = Append(@, summary),
                  !.taskResult[j] = summary,
                  !.taskOutcome[j] = IF u.elems[j].type = "text" THEN "none" ELSE o,
                  !.events = Append(@, Ev("summarizing", "Summarized",
                                          Len(u.summaries) + 1, Len(u.elems)))]]
    /\ UNCHANGED <<uuid, clock, files, docstore, indexFile, diskIndex, documents,
                   chat_history, uploads, queries, qr>>
    /\ UNCHANGED <<deletes, dl>>

\* the summaries are assigned to the elements, the elements are handed to
\* index_file_streaming, which yields "indexing"
IndexStart(p) ==
    /\ up[p].pc = "summarizing"
    /\ up[p].todo = {}
    /\ LET u == up[p]
       IN up' = [up EXCEPT ![p] =
            [u EXCEPT !.pc = IF Len(u.elems) = 0 THEN "saving" ELSE "mset",
                !.elems = AssignSummaries(u.elems, u.summaries),
                !.events = Append(@, Ev("indexing", "Storing", 0, Len(u.elems)))]]
    /\ UNCHANGED <<uuid, clock, files, docstore, indexFile, diskIndex, documents,
                   chat_history, uploads, queries, qr>>
    /\ UNCHANGED <<deletes, dl>>

\* per element: yields "indexing", then docstore.mset
DocstoreMset(p) ==
    /\ up[p].pc = "mset"
    /\ \E io \in IOOutcomes :
         LET u0 == up[p]
             n == u0.total_indexed + 1
             elem == u0.elems[n]
             u == [u0 EXCEPT !.total_indexed = n,
                      !.events = Append(@, Ev("indexing", elem.type, n, Len(u0.elems)))]
         IN IF io = "raise"
            THEN /\ up' = [up EXCEPT ![p] = UploadRaise(u, "docstore.mset")]
                 /\ UNCHANGED docstore
            ELSE /\ up' = [up EXCEPT ![p] = [u EXCEPT !.pc = "add"]]
                 /\ docstore' = MSet(docstore, elem.doc_id, elem)
    /\ UNCHANGED <<uuid, clock, files, indexFile, diskIndex, documents,
                   chat_history, uploads, queries, qr>>
    /\ UNCHANGED <<deletes, dl>>

\* an add_documents that embeds the summary but leaves the index as it was
AddDocumentsDropped(p) ==
    /\ up[p].pc = "add"
    /\ LET u == up[p]
       IN up' = [up EXCEPT ![p] =
            [u EXCEPT !.pc = IF u.total_indexed = Len(u.elems) THEN "saving" ELSE "mset"]]
    /\ UNCHANGED <<uuid, clock, files, docstore, indexFile, diskIndex, documents,
                   chat_history, uploads, queries, qr>>
    /\ UNCHANGED <<deletes, dl>>

\* per element: vectorstore_user.add_documents([summary_doc]) embeds the summary
AddDocuments(p) ==
    /\ up[p].pc = "add"
    /\ \E o \in EmbedOutcomes(up[p].key) :
         LET u == up[p]
             elem == u.elems[u.total_indexed]
         IN up' = [up EXCEPT ![p] =
              IF o = "raise"
              THEN UploadRaise(u, "add_documents")
              ELSE [u EXCEPT !.vs = @ \cup {SummaryDoc(elem)},
                       !.pc = IF u.total_indexed = Len(u.elems) THEN "saving" ELSE "mset"]]
    /\ UNCHANGED <<uuid, clock, files, docstore, indexFile, diskIndex, documents,
                   chat_history, uploads, queries, qr>>
    /\ UNCHANGED <<deletes, dl>>

\* a save_local moved into the per-element loop: "saving" after every element
SaveLocalEachElement(p) ==
    /\ up[p].pc \in {"saving", "mset"}
    /\ up[p].total_indexed >= 1
    /\ up' = [up EXCEPT ![p] =
         [@ EXCEPT !.pc = IF @ = "mset" THEN "mset" ELSE "manifest",
             !.events = Append(@, Ev("saving", "Saving", 0, 0))]]
    /\ indexFile' = TRUE
    /\ diskIndex' = up[p].vs
    /\ UNCHANGED <<uuid, clock, files, docstore, documents, chat_history, uploads,
                   queries, qr>>
    /\ UNCHANGED <<deletes, dl>>

\* yields "saving", then vectorstore_user.save_local(VEC_DIR)
SaveLocal(p) ==
    /\ up[p].pc = "saving"
    /\ \E io \in IOOutcomes :
         LET u == [up[p] EXCEPT !.events = Append(@, Ev("saving", "Saving", 0, 0))]
         IN IF io = "raise"
            THEN /\ up' = [up EXCEPT ![p] = UploadRaise(u, "save_local")]
                 /\ UNCHANGED <<indexFile, diskIndex>>
            ELSE /\ up' = [up EXCEPT ![p] = [u EXCEPT !.pc = "manifest"]]
                 /\ indexFile' = TRUE
                 /\ diskIndex' = u.vs
    /\ UNCHANGED <<uuid, clock, files, docstore, documents, chat_history, uploads,
                   queries, qr>>
    /\ UNCHANGED <<deletes, dl>>

\* stats of the manifest record: the number of elements of each kind
Stats(elems) ==
    [images |-> Cardinality({j \in 1..Len(elems) : elems[j].type = "image"}),
     tables |-> Cardinality({j \in 1..Len(elems) : elems[j].type = "table"}),
     texts |-> Cardinality({j \in 1..Len(elems) : elems[j].type = "text"})]

\* existing_doc_index: the first record with this display name, or -1
ExistingDocIndex(docs, name) ==
    LET hits == {i \in 1..Len(docs) : docs[i].name = name}
    IN IF hits = {} THEN -1 ELSE CHOOSE i \in hits : \A k \in hits : i <= k

\* a manifest update that appends a record for every ingestion
UpdateManifestAppend(docs, name, doc_id, fp, stats, now) ==
    Append(docs, [id |-> doc_id, name |-> name, path |-> fp,
                  uploadedAt |-> now, preview |-> "Indexed", stats |-> stats])

\* the manifest after "Update manifest": the record of this display name is
\* updated in place, or a new record is appended
UpdateManifest(docs, name, doc_id, fp, stats, now) ==
    LET i == ExistingDocIndex(docs, name)
    IN IF i # -1
       THEN [docs EXCEPT ![i].uploadedAt = now, ![i].stats = stats,
                         ![i].preview = "Re-indexed"]
       ELSE Append(docs, [id |-> doc_id, name |-> name, path |-> fp,
                          uploadedAt |-> now, preview |-> "Indexed", stats |-> stats])

\* new_document_record: the record the update touched
NewDocumentRecord(docs, name) == docs[ExistingDocIndex(docs, name)]

\* a manifest step that builds the record but does not write documents.json
ManifestWriteSkipped(p) ==
    /\ up[p].pc = "manifest_write"
    /\ clock' = clock + 1
    /\ LET u == up[p]
           new == UpdateManifest(u.docs, u.filename, u.doc_id, u.fp,
                                 Stats(u.elems), clock + 1)
       IN up' = [up EXCEPT ![p] =
                   [u EXCEPT !.pc = "chat_read", !.docs = new,
                       !.record = NewDocumentRecord(new, u.filename)]]
    /\ UNCHANGED <<uuid, files, docstore, indexFile, diskIndex, documents,
                   chat_history, uploads, queries, qr>>
    /\ UNCHANGED <<deletes, dl>>

\* yields "manifest", reads documents.json
ManifestRead(p) ==
    /\ up[p].pc = "manifest"
    /\ up' = [up EXCEPT ![p] =
         [@ EXCEPT !.pc = "manifest_write", !.docs = documents,
             !.events = Append(@, Ev("manifest", "Updating", 0, 0))]]
    /\ UNCHANGED <<uuid, clock, files, docstore, indexFile, diskIndex, documents,
                   chat_history, uploads, queries, qr>>
    /\ UNCHANGED <<deletes, dl>>

\* updates the list read and writes documents.json
ManifestWrite(p) ==
    /\ up[p].pc = "manifest_write"
    /\ clock' = clock + 1
    /\ \E io \in IOOutcomes :
         LET u == up[p]
             new == UpdateManifest(u.docs, u.filename, u.doc_id, u.fp,
                                   Stats(u.elems), clock + 1)
         IN IF io = "raise"
            THEN /\ up' = [up EXCEPT ![p] = UploadRaise(u, "write documents.json")]
                 /\ UNCHANGED documents
            ELSE /\ up' = [up EXCEPT ![p] =
                      [u EXCEPT !.pc = "chat_read", !.docs = new,
                          !.record = NewDocumentRecord(new, u.filename)]]
                 /\ documents' = new
    /\ UNCHANGED <<uuid, files, docstore, indexFile, diskIndex, chat_history,
                   uploads, queries, qr>>
    /\ UNCHANGED <<deletes, dl>>

\* reads chat_history.json
ChatRead(p) ==
    /\ up[p].pc = "chat_read"
    /\ up' = [up EXCEPT ![p] = [@ EXCEPT !.pc = "chat_write", !.chats = chat_history]]
    /\ UNCHANGED <<uuid, clock, files, docstore, indexFile, diskIndex, documents,
                   chat_history, uploads, queries, qr>>
    /\ UNCHANGED <<deletes, dl>>

\* a new_chat with a fixed title instead of the filename
NewChatUntitled(chat_id, doc_id, name, now) ==
    [id |-> chat_id, document_id |-> doc_id, created_at |-> now, title |-> "New chat",
     messages |-> <<>>]

\* new_chat: a fresh id, the document id of this upload, the filename as title
NewChat(chat_id, doc_id, name, now) ==
    [id |-> chat_id, document_id |-> doc_id, created_at |-> now, title |-> name,
     messages |-> <<>>]

\* adds the new chat to the history read and writes chat_history.json
ChatWrite(p) ==
    /\ up[p].pc = "chat_write"
    /\ uuid' = uuid + 1
    /\ clock' = clock + 1
    /\ \E io \in IOOutcomes :
         LET u == up[p]
             new_chat == NewChat(uuid + 1, u.doc_id, u.filename, clock + 1)
         IN IF io = "raise"
            THEN /\ up' = [up EXCEPT ![p] = UploadRaise(u, "write chat_history.json")]
                 /\ UNCHANGED chat_history
            ELSE /\ up' = [up EXCEPT ![p] = [u EXCEPT !.pc = "complete", !.chat = new_chat]]
                 /\ chat_history' = MSet(u.chats, new_chat.id, new_chat)
    /\ UNCHANGED <<files, docstore, indexFile, diskIndex, documents, uploads,
                   queries, qr>>
    /\ UNCHANGED <<deletes, dl>>

\* yields "complete" with the document record and the chat
Complete(p) ==
    /\ up[p].pc = "complete"
    /\ up' = [up EXCEPT ![p] =
         [@ EXCEPT !.pc = "done",
             !.events = Append(@, Ev("complete", "Processing complete!", 0, 0))]]
    /\ UNCHANGED <<uuid, clock, files, docstore, indexFile, diskIndex, documents,
                   chat_history, uploads, queries, qr>>
    /\ UNCHANGED <<deletes, dl>>

Upload(p) ==
    \/ StartIndexing(p)
    \/ LoadFile(p)
    \/ ImageAndTableProcessing(p)
    \/ Chunking(p)
    \/ SummarizeNext(p)
    \/ IndexStart(p)
    \/ DocstoreMset(p)
    \/ AddDocuments(p)
    \/ SaveLocal(p)
    \/ ManifestRead(p)
    \/ ManifestWrite(p)
    \/ ChatRead(p)
    \/ ChatWrite(p)
    \/ Complete(p)

(* ---------------------------- query pipeline --------------------------- *)
\* text is a sequence of tokens; a fragment of the model's stream is empty,
\* white space, or visible text
Fragments == {<<>>, <<" ">>, <<"a">>}

\* str.strip() == "": nothing but white space
IsBlank(text) == \A i \in 1..Len(text) : text[i] = " "

\* what str(e) of a failed stream may contain
ErrorMessages == {"list index out of range", "SAFETY", "timeout"}

\* the fallback fragment answer_generator picks from the error message
ErrorResponse(msg) ==
    CASE msg = "list index out of range" -> <<"I apologize, but I encountered an issue">>
      [] msg = "SAFETY" -> <<"I apologize, but this query was blocked">>
      [] OTHER -> <<"I encountered an error">>

\* the fragment sent when the stream produced nothing
Apology == <<"I apologize, but I couldn't generate a response">>

\* "for img in images[:4]"
ImageCap == 4

Take(seq, n) == IF Len(seq) <= n THEN seq ELSE SubSeq(seq, 1, n)

RECURSIVE Rankings(_, _)
\* similarity_search(query, k): the k nearest documents of the index, nearest
\* first; which ones and in which order depends on the query
Rankings(S, n) ==
    IF n = 0 \/ S = {} THEN {<<>>}
    ELSE UNION {{<<e>> \o r : r \in Rankings(S \ {e}, n - 1)} : e \in S}

RECURSIVE MGetFound(_, _)
\* doc_ids: the doc_id of every match whose metadata has one
DocIds(summary_docs) ==
    [i \in 1..Len(SelectSeq(summary_docs, LAMBDA d : d.doc_id # NoId)) |->
        SelectSeq(summary_docs, LAMBDA d : d.doc_id # NoId)[i].doc_id]

\* an mget whose result ends at the first missing key
MGetFoundUntilMissing(store, ids) ==
    LET missing == {i \in 1..Len(ids) : ids[i] \notin DOMAIN store}
        n == IF missing = {} THEN Len(ids)
             ELSE (CHOOSE i \in missing : \A j \in missing : i <= j) - 1
    IN [i \in 1..n |-> store[ids[i]]]

\* docstore.mget(doc_ids) without the None entries, decoded
MGetFound(store, ids) ==
    IF ids = <<>> THEN <<>>
    ELSE (IF Head(ids) \in DOMAIN store THEN <<store[Head(ids)]>> ELSE <<>>)
         \o MGetFound(store, Tail(ids))

Originals(store, summary_docs) == MGetFound(store, DocIds(summary_docs))

\* the context string: page-labelled texts, then page-labelled tables, or the
\* fixed "No context available."
BuildContext(originals) ==
    LET texts == SelectSeq(originals, LAMBDA e : e.type = "text")
        tables == SelectSeq(originals, LAMBDA e : e.type = "table")
        label(e) == [page |-> e.page, original |-> e.original]
        part(es) == [i \in 1..Len(es) |-> label(es[i])]
    IN IF texts = <<>> /\ tables = <<>>
       THEN <<[page |-> NoPage, original |-> NoContent]>>
       ELSE part(texts) \o part(tables)

\* image parts that keep the last images when there are more than the cap
PromptImagesLatest(originals) ==
    LET images == SelectSeq(originals, LAMBDA e : e.type = "image")
        n == Len(images)
    IN IF n <= ImageCap THEN [i \in 1..n |-> images[i].original]
       ELSE [i \in 1..ImageCap |-> images[n - ImageCap + i].original]

\* the image parts of the human message
PromptImages(originals) ==
    LET images == SelectSeq(originals, LAMBDA e : e.type = "image")
    IN Take([i \in 1..Len(images) |-> images[i].original], ImageCap)

\* one event of the answer stream
QEv(type, content, chunks) == [type |-> type, content |-> content, chunks |-> chunks]

\* the k a client may send (similarity_search needs k >= 1)
RequestableK == 1..MaxK

\* the chat ids a client may send: every stored one, and one that is not stored
RequestableChats == (DOMAIN chat_history) \cup {NoId}

\* POST /chats/{chat_id}/query (query_chat_endpoint): the api key header is
\* required; reads chat_history.json
QueryChatEndpoint(p) ==
    /\ qr[p].pc \in {"idle", "done"}
    /\ queries' = queries + 1
    /\ \E key \in Keys, chat_id \in RequestableChats, k \in RequestableK :
         qr' = [Forget(qr, IdleQuery) EXCEPT ![p] =
           IF key = "none"
           THEN [IdleQuery EXCEPT !.pc = "done", !.http = 401]
           ELSE [IdleQuery EXCEPT !.pc = "user_write", !.key = key,
                    !.chat_id = chat_id, !.k = k, !.chats = chat_history]]
    /\ up' = Forget(up, IdleUpload)
    /\ dl' = Forget(dl, IdleDelete)
    /\ UNCHANGED <<uuid, clock, files, docstore, indexFile, diskIndex, documents,
                   chat_history, uploads, deletes>>

\* an unknown chat is a 404; otherwise the user message is appended to the
\* history read and chat_history.json is written
QueryUserWrite(p) ==
    /\ qr[p].pc = "user_write"
    /\ \E io \in IOOutcomes :
         LET q == qr[p]
         IN IF q.chat_id \notin DOMAIN q.chats
            THEN /\ qr' = [qr EXCEPT ![p] = [q EXCEPT !.pc = "done", !.http = 404]]
                 /\ UNCHANGED chat_history
            ELSE IF io = "raise"
                 THEN /\ qr' = [qr EXCEPT ![p] = [q EXCEPT !.pc = "done", !.http = 500]]
                      /\ UNCHANGED chat_history
                 ELSE LET new == [q.chats EXCEPT ![q.chat_id].messages =
                                    Append(@, [sender |-> "user", text |-> <<"query">>,
                                               chunks |-> <<>>])]
                      IN /\ qr' = [qr EXCEPT ![p] =
                                     [q EXCEPT !.pc = "retrieve", !.http = 200, !.chats = new]]
                         /\ chat_history' = new
    /\ UNCHANGED <<uuid, clock, files, docstore, indexFile, diskIndex, documents,
                   uploads, queries, up>>
    /\ UNCHANGED <<deletes, dl>>

\* answer_generator: gets the vectorstore, runs the similarity search and
\* yields the context event; an exception of either call leaves the generator
Retrieve(p) ==
    /\ qr[p].pc = "retrieve"
    /\ \E o1 \in EmbedOutcomes(qr[p].key), o2 \in EmbedOutcomes(qr[p].key) :
         LET q == qr[p]
             g == GetVectorstore(indexFile, diskIndex, o1)
         IN /\ indexFile' = g.exists
            /\ diskIndex' = g.disk
            /\ IF g.raised \/ o2 = "raise"
               THEN qr' = [qr EXCEPT ![p] = [q EXCEPT !.pc = "done", !.raised = TRUE]]
               ELSE \E r \in Rankings(g.vs, q.k) :
                      qr' = [qr EXCEPT ![p] =
                        [q EXCEPT !.pc = "build", !.summary_docs = r,
                            !.events = Append(@, QEv("context", <<>>, r))]]
    /\ UNCHANGED <<uuid, clock, files, docstore, documents, chat_history, uploads,
                   queries, up>>
    /\ UNCHANGED <<deletes, dl>>

\* resolves the matches in the docstore, builds the prompt and starts the
\* model's stream
BuildPrompt(p) ==
    /\ qr[p].pc = "build"
    /\ LET q == qr[p]
           originals == Originals(docstore, q.summary_docs)
       IN qr' = [qr EXCEPT ![p] =
            [q EXCEPT !.pc = "stream", !.originals = originals,
                !.context = BuildContext(originals),
                !.prompt_images = PromptImages(originals),
                !.invoked = TRUE]]
    /\ UNCHANGED <<uuid, clock, files, docstore, indexFile, diskIndex, documents,
                   chat_history, uploads, queries, up>>
    /\ UNCHANGED <<deletes, dl>>

\* one chunk of llm_user.astream: non-empty content is added to the answer
\* and forwarded
StreamChunk(p) ==
    /\ qr[p].pc = "stream"
    /\ qr[p].received < MaxFragments
    /\ \E content \in Fragments :
         LET q == [qr[p] EXCEPT !.received = @ + 1]
         IN qr' = [qr EXCEPT ![p] =
              IF content # <<>>
              THEN [q EXCEPT !.full_answer = @ \o content,
                       !.events = Append(@, QEv("chunk", content, <<>>))]
              ELSE q]
    /\ UNCHANGED <<uuid, clock, files, docstore, indexFile, diskIndex, documents,
                   chat_history, uploads, queries, up>>
    /\ UNCHANGED <<deletes, dl>>

\* a fallback that sets the answer but sends nothing
EmptyFallbackUnsent(q) ==
    IF q.full_answer = <<>> \/ IsBlank(q.full_answer)
    THEN [q EXCEPT !.full_answer = Apology]
    ELSE q

\* "Fallback if no answer was generated"
EmptyFallback(q) ==
    IF q.full_answer = <<>> \/ IsBlank(q.full_answer)
    THEN [q EXCEPT !.full_answer = Apology,
             !.events = Append(@, QEv("chunk", Apology, <<>>))]
    ELSE q

\* the stream ends
StreamEnd(p) ==
    /\ qr[p].pc = "stream"
    /\ qr' = [qr EXCEPT ![p] = [EmptyFallback(qr[p]) EXCEPT !.pc = "save_read"]]
    /\ UNCHANGED <<uuid, clock, files, docstore, indexFile, diskIndex, documents,
                   chat_history, uploads, queries, up>>
    /\ UNCHANGED <<deletes, dl>>

\* the stream raises: the answer becomes the fallback fragment, which is sent
StreamRaise(p) ==
    /\ qr[p].pc = "stream"
    /\ \E msg \in ErrorMessages :
         LET q == [qr[p] EXCEPT !.full_answer = ErrorResponse(msg),
                      !.error_msg = msg,
                      !.events = Append(@, QEv("chunk", ErrorResponse(msg), <<>>))]
         IN qr' = [qr EXCEPT ![p] = [EmptyFallback(q) EXCEPT !.pc = "save_read"]]
    /\ UNCHANGED <<uuid, clock, files, docstore, indexFile, diskIndex, documents,
                   chat_history, uploads, queries, up>>
    /\ UNCHANGED <<deletes, dl>>

\* reads chat_history.json
SaveRead(p) ==
    /\ qr[p].pc = "save_read"
    /\ qr' = [qr EXCEPT ![p] = [@ EXCEPT !.pc = "save_write", !.chats = chat_history]]
    /\ UNCHANGED <<uuid, clock, files, docstore, indexFile, diskIndex, documents,
                   chat_history, uploads, queries, up>>
    /\ UNCHANGED <<deletes, dl>>

\* appends the bot message to the chat if the history read still has it, and
\* writes chat_history.json
SaveWrite(p) ==
    /\ qr[p].pc = "save_write"
    /\ \E io \in IOOutcomes :
         LET q == qr[p]
             bot_message == [sender |-> "bot", text |-> q.full_answer,
                             chunks |-> q.summary_docs]
             new == IF q.chat_id \in DOMAIN q.chats
                    THEN [q.chats EXCEPT ![q.chat_id].messages = Append(@, bot_message)]
                    ELSE q.chats
         IN IF io = "raise"
            THEN /\ qr' = [qr EXCEPT ![p] = [q EXCEPT !.pc = "done", !.raised = TRUE]]
                 /\ UNCHANGED chat_history
            ELSE /\ qr' = [qr EXCEPT ![p] = [q EXCEPT !.pc = "end", !.chats = new]]
                 /\ chat_history' = new
    /\ UNCHANGED <<uuid, clock, files, docstore, indexFile, diskIndex, documents,
                   uploads, queries, up>>
    /\ UNCHANGED <<deletes, dl>>

\* yields the end event
End(p) ==
    /\ qr[p].pc = "end"
    /\ qr' = [qr EXCEPT ![p] =
         [@ EXCEPT !.pc = "done", !.events = Append(@, QEv("end", <<>>, <<>>))]]
    /\ UNCHANGED <<uuid, clock, files, docstore, indexFile, diskIndex, documents,
                   chat_history, uploads, queries, up>>
    /\ UNCHANGED <<deletes, dl>>

\* the consumer disconnects before the stream has ended: the generator is
\* cancelled where it stands
Abandon(p) ==
    /\ qr[p].pc \in {"retrieve", "build", "stream", "save_read", "save_write", "end"}
    /\ qr' = [qr EXCEPT ![p] = [@ EXCEPT !.pc = "done", !.abandoned = TRUE]]
    /\ UNCHANGED <<uuid, clock, files, docstore, indexFile, diskIndex, documents,
                   chat_history, uploads, queries, up>>
    /\ UNCHANGED <<deletes, dl>>

Query(p) ==
    \/ QueryUserWrite(p)
    \/ Retrieve(p)
    \/ BuildPrompt(p)
    \/ StreamChunk(p)
    \/ StreamEnd(p)
    \/ StreamRaise(p)
    \/ SaveRead(p)
    \/ SaveWrite(p)
    \/ End(p)
    \/ Abandon(p)

(* ----------------------------- chat deletion --------------------------- *)
\* del d[key]
DelKey(d, key) == [k \in (DOMAIN d) \ {key} |-> d[k]]

\* documents.pop(i)
Pop(docs, i) == [j \in 1..(Len(docs) - 1) |-> IF j < i THEN docs[j] ELSE docs[j + 1]]

\* a loop that stops at the first record whatever its id
DocToDeleteIndexFirst(docs, document_id) == IF docs = <<>> THEN 0 ELSE 1

\* the first record whose id is document_id, or 0 when the loop finds none
DocToDeleteIndex(docs, document_id) ==
    LET hits == {i \in 1..Len(docs) : docs[i].id = document_id}
    IN IF hits = {} THEN 0 ELSE CHOOSE i \in hits : \A k \in hits : i <= k

\* other_chats_with_doc: some remaining chat has this document_id
OtherChatsWithDoc(chats, document_id) ==
    \E c \in DOMAIN chats : chats[c].document_id = document_id

\* DELETE /chats/{chat_id} (delete_chat_endpoint): reads chat_history.json
DeleteChatEndpoint(p) ==
    /\ dl[p].pc \in {"idle", "done"}
    /\ deletes' = deletes + 1
    /\ \E chat_id \in RequestableChats :
         dl' = [Forget(dl, IdleDelete) EXCEPT ![p] =
                  [IdleDelete EXCEPT !.pc = "chat_write", !.chat_id = chat_id,
                      !.chats = chat_history]]
    /\ up' = Forget(up, IdleUpload)
    /\ qr' = Forget(qr, IdleQuery)
    /\ UNCHANGED <<uuid, clock, files, docstore, indexFile, diskIndex, documents,
                   chat_history, uploads, queries>>

\* an unknown chat raises the 404 inside the try, which "except Exception"
\* turns into a 500; otherwise the chat is removed from the history read and
\* chat_history.json is written; the handler goes on to the document only if
\* no remaining chat of the history read has the same document_id
DeleteChatWrite(p) ==
    /\ dl[p].pc = "chat_write"
    /\ \E io \in IOOutcomes :
         LET d == dl[p]
         IN IF d.chat_id \notin DOMAIN d.chats
            THEN /\ dl' = [dl EXCEPT ![p] = [d EXCEPT !.pc = "done", !.http = 500]]
                 /\ UNCHANGED chat_history
            ELSE IF io = "raise"
                 THEN /\ dl' = [dl EXCEPT ![p] = [d EXCEPT !.pc = "done", !.http = 500]]
                      /\ UNCHANGED chat_history
                 ELSE LET document_id == d.chats[d.chat_id].document_id
                          new == DelKey(d.chats, d.chat_id)
                      IN /\ chat_history' = new
                         /\ dl' = [dl EXCEPT ![p] =
                              IF document_id # NoId /\ ~OtherChatsWithDoc(new, document_id)
                              THEN [d EXCEPT !.pc = "doc_read", !.chats = new,
                                       !.document_id = document_id]
                              ELSE [d EXCEPT !.pc = "done", !.http = 200, !.chats = new,
                                       !.document_id = document_id]]
    /\ UNCHANGED <<uuid, clock, files, docstore, indexFile, diskIndex, documents,
                   uploads, queries, deletes, up, qr>>

\* reads documents.json, pops the first record with this id and removes its
\* file if it exists; without such a record nothing is deleted
DeleteDocRead(p) ==
    /\ dl[p].pc = "doc_read"
    /\ \E io \in IOOutcomes :
         LET d == dl[p]
             i == DocToDeleteIndex(documents, d.document_id)
         IN IF i = 0
            THEN /\ dl' = [dl EXCEPT ![p] =
                           [d EXCEPT !.pc = "done", !.http = 200, !.docs = documents]]
                 /\ UNCHANGED files
            ELSE IF io = "raise" /\ documents[i].path \in files
                 THEN /\ dl' = [dl EXCEPT ![p] = [d EXCEPT !.pc = "done", !.http = 500]]
                      /\ UNCHANGED files
                 ELSE /\ dl' = [dl EXCEPT ![p] =
                                [d EXCEPT !.pc = "doc_write", !.docs = Pop(documents, i),
                                    !.doc_to_delete = documents[i]]]
                      /\ files' = files \ {documents[i].path}
    /\ UNCHANGED <<uuid, clock, docstore, indexFile, diskIndex, documents,
                   chat_history, uploads, queries, deletes, up, qr>>

\* writes documents.json without the record and answers document_deleted
DeleteDocWrite(p) ==
    /\ dl[p].pc = "doc_write"
    /\ \E io \in IOOutcomes :
         LET d == dl[p]
         IN IF io = "raise"
            THEN /\ dl' = [dl EXCEPT ![p] = [d EXCEPT !.pc = "done", !.http = 500]]
                 /\ UNCHANGED documents
            ELSE /\ dl' = [dl EXCEPT ![p] =
                           [d EXCEPT !.pc = "done", !.http = 200, !.document_deleted = TRUE]]
                 /\ documents' = d.docs
    /\ UNCHANGED <<uuid, clock, files, docstore, indexFile, diskIndex, chat_history,
                   uploads, queries, deletes, up, qr>>

Delete(p) ==
    \/ DeleteChatWrite(p)
    \/ DeleteDocRead(p)
    \/ DeleteDocWrite(p)

\* requests handled one at a time, MaxRequests of them
Sequential == Quiet /\ Requests < MaxRequests

Next ==
    \/ Sequential /\ UploadFileEndpoint("u1")
    \/ \E p \in UploadProcs : Upload(p)
    \/ \E p \in QueryProcs : Sequential /\ QueryChatEndpoint(p)
    \/ \E p \in QueryProcs : Query(p)
    \/ \E p \in DeleteProcs : Sequential /\ DeleteChatEndpoint(p)
    \/ \E p \in DeleteProcs : Delete(p)

Spec == Init /\ [][Next]_vars

(* ------------------- document lifecycle: uploads and deletions ---------- *)
\* the files of the lifecycle runs: one text chunk on page 1, or nothing
LifeDocs ==
    {d \in RawDocs : d.imgs = 0 /\ d.tabs = 0 /\ SumTo(d.txt, MaxPages) = d.txt[1]
                      /\ d.txt[1] <= 1}

\* the uploads of the lifecycle runs: a supported file, an accepted key, and
\* no failing call
LifeInputs ==
    \A p \in UploadProcs :
        /\ up[p].http \in {0, 200}
        /\ up[p].exc = ""
        /\ up[p].pc # "idle" =>
              /\ up[p].key = "good"
              /\ Suffix(up[p].filename) \in SupportedSuffixes
        /\ up[p].raw \in LifeDocs

SequentialLife == Quiet /\ Requests < MaxLifeRequests

NextLife ==
    \/ SequentialLife /\ UploadFileEndpoint("u1") /\ LifeInputs'
    \/ \E p \in UploadProcs : Upload(p) /\ LifeInputs'
    \/ \E p \in DeleteProcs : SequentialLife /\ DeleteChatEndpoint(p)
    \/ \E p \in DeleteProcs : Delete(p)

SpecLife == Init /\ [][NextLife]_vars

(* ---------------- concurrent requests: the handlers interleave ---------- *)
\* the requests of the concurrent runs: uploads as in the lifecycle runs, of
\* files with one text chunk; queries on a stored chat with an accepted key,
\* k = 1, at most one fragment of visible text and no failing call, read to
\* the end; deletions of a stored chat with no failing call
ConcInputs ==
    /\ LifeInputs
    /\ \A p \in UploadProcs :
          up[p].pc \notin {"idle", "setup", "load"} => up[p].raw.txt[1] = 1
    /\ \A p \in QueryProcs :
          /\ qr[p].pc # "idle" => (qr[p].key = "good" /\ qr[p].chat_id # NoId)
          /\ qr[p].k <= 1
          /\ qr[p].received <= 1
          /\ qr[p].full_answer \in {<<>>, <<"a">>, Apology}
          /\ ~qr[p].raised
          /\ qr[p].http \in {0, 200}
    /\ \A p \in DeleteProcs :
          /\ dl[p].pc # "idle" => dl[p].chat_id # NoId
          /\ dl[p].http \in {0, 200}

\* the handlers are coroutines of one event loop: any of them may take the
\* next step, and a new request may arrive while others are being handled
InFlight ==
    Cardinality({p \in UploadProcs : up[p].pc \notin {"idle", "done"}})
    + Cardinality({p \in QueryProcs : qr[p].pc \notin {"idle", "done"}})
    + Cardinality({p \in DeleteProcs : dl[p].pc \notin {"idle", "done"}})

Arrival == Requests < MaxConcRequests /\ InFlight < MaxInFlight

NextConc ==
    \/ \E p \in UploadProcs :
          Arrival /\ uploads < MaxConcUploads /\ UploadFileEndpoint(p) /\ ConcInputs'
    \/ \E p \in UploadProcs : Upload(p) /\ ConcInputs'
    \/ \E p \in QueryProcs : Arrival /\ QueryChatEndpoint(p) /\ ConcInputs'
    \/ \E p \in QueryProcs :
          /\ \/ QueryUserWrite(p)
             \/ Retrieve(p)
             \/ BuildPrompt(p)
             \/ StreamChunk(p)
             \/ StreamEnd(p)
             \/ SaveRead(p)
             \/ SaveWrite(p)
             \/ End(p)
          /\ ConcInputs'
    \/ \E p \in DeleteProcs : Arrival /\ DeleteChatEndpoint(p) /\ ConcInputs'
    \/ \E p \in DeleteProcs : Delete(p) /\ ConcInputs'

SpecConc == Init /\ [][NextConc]_vars

(* ------------- conversations: several queries, one at a time ----------- *)
\* the requests of the conversation runs: uploads as in the lifecycle runs,
\* of files with one text chunk; queries on a stored chat with an accepted
\* key, k = 1 and at most one fragment, whose calls may fail and whose
\* consumer may leave; deletions of a stored chat
ChatInputs ==
    /\ LifeInputs
    /\ \A p \in UploadProcs :
          up[p].pc \notin {"idle", "setup", "load"} => up[p].raw.txt[1] = 1
    /\ \A p \in QueryProcs :
          /\ qr[p].pc # "idle" => (qr[p].key = "good" /\ qr[p].chat_id # NoId)
          /\ qr[p].k <= 1
          /\ qr[p].received <= 1
          /\ qr[p].error_msg \in {"", "timeout"}
    /\ \A p \in DeleteProcs : dl[p].pc # "idle" => dl[p].chat_id # NoId

SequentialChat == Quiet /\ Requests < MaxChatRequests

NextChat ==
    \/ SequentialChat /\ UploadFileEndpoint("u1") /\ ChatInputs'
    \/ \E p \in UploadProcs : Upload(p) /\ ChatInputs'
    \/ \E p \in QueryProcs : SequentialChat /\ QueryChatEndpoint(p) /\ ChatInputs'
    \/ \E p \in QueryProcs : Query(p) /\ ChatInputs'
    \/ \E p \in DeleteProcs : SequentialChat /\ DeleteChatEndpoint(p) /\ ChatInputs'
    \/ \E p \in DeleteProcs : Delete(p) /\ ChatInputs'

SpecChat == Init /\ [][NextChat]_vars

(* ------------- retrieval: answer_generator on a filled index ------------ *)
\* the kinds of the elements of the one document of the retrieval runs, in
\* extraction order: more images than the prompt takes, a text, a table
PoolKinds == <<"image", "image", "image", "image", "image", "text", "table">>

\* the document has id 1, its elements the ids that follow, its chat the next
PoolDocId == 1
PoolIds == {PoolDocId + i : i \in 1..Len(PoolKinds)}
PoolChatId == PoolDocId + Len(PoolKinds) + 1

\* the element with this id as index_file_streaming stored it
PoolElement(id) ==
    LET i == id - PoolDocId
        kind == PoolKinds[i]
        n == Cardinality({j \in 1..(i - 1) : PoolKinds[j] = kind})
        e == Element(id, kind, "a.pdf", UploadPath(PoolDocId, "a.pdf"),
                     IF kind = "table" THEN NoPage ELSE 1, n)
    IN [e EXCEPT !.summary = Summarize(e, "raise")]

\* the persisted index after the ingestion of that document
PoolIndex == {Placeholder} \cup {SummaryDoc(PoolElement(id)) : id \in PoolIds}

\* a query with k up to MaxMatches has run its similarity search on that
\* index and sent the context event; the docstore resolves all but up to
\* MaxMissing of the element ids
InitRetrieve ==
    /\ uuid = PoolChatId
    /\ clock = 2
    /\ files = {UploadPath(PoolDocId, "a.pdf")}
    /\ \E missing \in SUBSET PoolIds :
          /\ Cardinality(missing) <= MaxMissing
          /\ docstore = [id \in PoolIds \ missing |-> PoolElement(id)]
    /\ indexFile = TRUE
    /\ diskIndex = PoolIndex
    /\ documents = <<[id |-> PoolDocId, name |-> "a.pdf",
                      path |-> UploadPath(PoolDocId, "a.pdf"), uploadedAt |-> 1,
                      preview |-> "Indexed",
                      stats |-> Stats([i \in 1..Len(PoolKinds) |->
                                          PoolElement(PoolDocId + i)])]>>
    /\ uploads = 1
    /\ queries = 1
    /\ deletes = 0
    /\ up = [p \in UploadProcs |-> IdleUpload]
    /\ dl = [p \in DeleteProcs |-> IdleDelete]
    /\ \E k \in 1..MaxMatches : \E r \in Rankings(PoolIndex, k) :
          LET chat == [NewChat(PoolChatId, PoolDocId, "a.pdf", 2) EXCEPT !.messages =
                         <<[sender |-> "user", text |-> <<"query">>, chunks |-> <<>>]>>]
              history == MSet(<<>>, PoolChatId, chat)
          IN /\ chat_history = history
             /\ qr = [p \in QueryProcs |->
                        [IdleQuery EXCEPT !.pc = "build", !.http = 200, !.key = "good",
                            !.chat_id = PoolChatId, !.k = k, !.chats = history,
                            !.summary_docs = r,
                            !.events = <<QEv("context", <<>>, r)>>]]

NextRetrieve == \E p \in QueryProcs : BuildPrompt(p)

SpecRetrieve == InitRetrieve /\ [][NextRetrieve]_vars

(* ------------------------------ properties ----------------------------- *)
\* the step names of the events an upload has emitted
Emitted(p, step) == \E i \in 1..Len(up[p].events) : up[p].events[i].step = step

Completed(p) == Emitted(p, "complete")

\* the summaries have been assigned to the elements
Assigned(p) ==
    /\ Len(up[p].elems) > 0
    /\ up[p].pc \notin {"idle", "setup", "load", "images", "chunk", "summarizing"}
    /\ up[p].todo = {}
    /\ Len(up[p].summaries) = Len(up[p].elems)
    /\ ~Emitted(p, "error") \/ Emitted(p, "indexing")

\* the element ids one upload created
ElementIds(p) == {up[p].elems[j].doc_id : j \in 1..Len(up[p].elems)}

\* the element ids an index holds
IndexedIds(index) == {e.doc_id : e \in index} \ {NoId}

\* a query issued now can match the element: the index it loads holds the id
\* and the docstore resolves it
Queryable(id) ==
    /\ id \in IndexedIds(GetVectorstore(indexFile, diskIndex, "ok").vs)
    /\ id \in DOMAIN docstore

\* C1: whatever order the summarization tasks complete in, every element's
\* summary is the result of the task that was launched for that element
C1_SummaryOfOwnTask ==
    \A p \in UploadProcs :
        Assigned(p) =>
            \A j \in 1..Len(up[p].elems) :
                up[p].elems[j].summary = up[p].taskResult[j]

\* C2: after an ingestion that emitted complete, every element id of the
\* persisted index has a docstore entry, and every element this ingestion
\* wrote to the docstore has an entry in the persisted index
C2_NoOrphans ==
    \A p \in UploadProcs :
        Completed(p) =>
            /\ IndexedIds(diskIndex) \subseteq DOMAIN docstore
            /\ \A id \in ElementIds(p) :
                 /\ id \in DOMAIN docstore
                 /\ Cardinality({e \in diskIndex : e.doc_id = id}) = 1

\* a completed ingestion of at least two elements into an index that already
\* held the elements of an earlier ingestion
C2_Witness ==
    \E p \in UploadProcs :
        /\ Completed(p)
        /\ Len(up[p].elems) >= 2
        /\ IndexedIds(diskIndex) \ ElementIds(p) # {}

\* C3: the in-memory index of a running ingestion never holds an element id
\* the docstore lacks (the docstore write comes first)
C3_StoreBeforeIndex ==
    \A p \in UploadProcs : IndexedIds(up[p].vs) \subseteq DOMAIN docstore

\* an ingestion between two elements: the first is in both stores, the second
\* in neither
C3_Witness ==
    \E p \in UploadProcs :
        /\ up[p].pc = "mset"
        /\ up[p].total_indexed = 1
        /\ up[p].elems[1].doc_id \in IndexedIds(up[p].vs)
        /\ up[p].elems[1].doc_id \in DOMAIN docstore
        /\ up[p].elems[2].doc_id \notin DOMAIN docstore

\* the events of a query stream are one context, any chunks, one end
WellFormedStream(events) ==
    /\ Len(events) >= 2
    /\ events[1].type = "context"
    /\ events[Len(events)].type = "end"
    /\ \A i \in 2..(Len(events) - 1) : events[i].type = "chunk"

\* C4: on every path of answer_generator the stream, unless the consumer
\* left it, is one context event, then chunk events, then one end event
C4_StreamProtocol ==
    \A p \in QueryProcs :
        (qr[p].pc = "done" /\ qr[p].http = 200 /\ ~qr[p].abandoned)
            => WellFormedStream(qr[p].events)

\* the place of a step name in the order of the pipeline ("setup" and
\* "extraction" open the extracting stage, "manifest" is the manifest update)
StepRank(step) ==
    CASE step \in {"setup", "extraction", "extracting"} -> 1
      [] step = "chunking" -> 2
      [] step = "summarizing" -> 3
      [] step = "indexing" -> 4
      [] step = "saving" -> 5
      [] step = "manifest" -> 6
      [] step = "complete" -> 7
      [] OTHER -> 0

C6_SingleError ==
    \A p \in UploadProcs :
        LET ev == up[p].events
        IN /\ up[p].exc # "" =>
                /\ up[p].pc = "done"
                /\ Cardinality({i \in 1..Len(ev) : ev[i].step = "error"}) = 1
                /\ ev[Len(ev)] = [step |-> "error", message |-> <<up[p].exc, 0, 0>>]
                /\ ~Completed(p)
           /\ Emitted(p, "error") => up[p].exc # ""

\* an ingestion whose second add_documents raised
C6_Witness ==
    \E p \in UploadProcs :
        /\ up[p].exc = "add_documents"
        /\ up[p].total_indexed = 2

\* the run failed while indexing or saving
FailedIndexing(p) ==
    /\ up[p].pc = "done"
    /\ up[p].exc \in {"docstore.mset", "add_documents", "save_local"}

\* C7: the elements an ingestion wrote to both stores before it failed while
\* indexing or saving can be matched and resolved by a later query
C7_IndexedStayQueryable ==
    \A p \in UploadProcs :
        FailedIndexing(p) =>
            \A id \in ElementIds(p) :
                (id \in IndexedIds(up[p].vs) /\ id \in DOMAIN docstore) => Queryable(id)

\* C8: a failed summarization call of an image or a table yields the fallback
\* summary of that element, no error event follows a summarizing event, and a
\* completed ingestion has written every element to both stores
C8_SummarizationFailureTolerated ==
    \A p \in UploadProcs :
        LET u == up[p]
        IN /\ \A j \in 1..Len(u.taskOutcome) :
                (j \notin u.todo /\ u.taskOutcome[j] = "raise") =>
                    /\ u.elems[j].type = "image" =>
                         u.taskResult[j] =
                            [tag |-> "Image content could not be analyzed.",
                             body |-> NoContent]
                    /\ u.elems[j].type = "table" =>
                         u.taskResult[j] =
                            [tag |-> "Table content: ", body |-> u.elems[j].original]
           /\ \A i \in 1..(Len(u.events) - 1) :
                u.events[i].step = "summarizing" => u.events[i + 1].step # "error"
           /\ Completed(p) => \A id \in ElementIds(p) : Queryable(id)

\* a completed ingestion of an image whose summarization failed and one more
\* element
C8_Witness ==
    \E p \in UploadProcs :
        /\ Completed(p)
        /\ Len(up[p].elems) >= 2
        /\ \E j \in 1..Len(up[p].elems) :
             up[p].elems[j].type = "image" /\ up[p].taskOutcome[j] = "raise"

\* no two records of the manifest have the same display name
UniqueNames(docs) ==
    \A i, j \in 1..Len(docs) : docs[i].name = docs[j].name => i = j

\* the manifest write of a re-ingestion: same length, the record of that name
\* keeps its place, id, name and path and gets the new statistics and a later
\* timestamp, every other record is untouched
ReingestInPlace(p) ==
    LET i == ExistingDocIndex(documents, up[p].filename)
    IN (up[p].pc = "manifest_write" /\ up'[p].pc = "chat_read" /\ i # -1) =>
          /\ Len(documents') = Len(documents)
          /\ documents'[i].id = documents[i].id
          /\ documents'[i].name = documents[i].name
          /\ documents'[i].path = documents[i].path
          /\ documents'[i].stats = Stats(up[p].elems)
          /\ documents'[i].uploadedAt > documents[i].uploadedAt
          /\ \A k \in 1..Len(documents) : k # i => documents'[k] = documents[k]

\* C9: the manifest never holds two records of one display name, and an
\* ingestion of a name that is already there updates that record in place
C9_OneRecordPerName ==
    /\ [](UniqueNames(documents))
    /\ [][\A p \in UploadProcs : ReingestInPlace(p)]_vars

\* a file was ingested a second time
C9_Witness ==
    \E i \in 1..Len(documents) :
        /\ documents[i].preview = "Re-indexed"
        /\ documents[i].uploadedAt > 1

\* C10: when no match of the similarity search is an element summary, the
\* query does not invoke the generative model
C10_NoMatchShortCircuits ==
    \A p \in QueryProcs :
        (Len(qr[p].events) >= 1 /\ DocIds(qr[p].summary_docs) = <<>>) => ~qr[p].invoked

\* the contents of the chunk events of a stream, concatenated in order
RECURSIVE SentText(_)
SentText(events) ==
    IF events = <<>> THEN <<>>
    ELSE (IF Head(events).type = "chunk" THEN Head(events).content ELSE <<>>)
         \o SentText(Tail(events))

\* the stream of a query has reached its end event
Ended(p) ==
    /\ Len(qr[p].events) >= 1
    /\ qr[p].events[Len(qr[p].events)].type = "end"

\* the chunk events whose content is a fallback for a failed stream
FallbackChunks(events) ==
    {i \in 1..Len(events) :
        /\ events[i].type = "chunk"
        /\ \E msg \in ErrorMessages : events[i].content = ErrorResponse(msg)}

\* C11: once the model's stream has raised, the stream the consumer was not
\* cut off from is not broken by an exception, holds exactly one fallback
\* chunk, the one for the error message, directly followed by the end event
C11_StreamErrorFallback ==
    \A p \in QueryProcs :
        LET ev == qr[p].events
            n == Len(ev)
        IN (qr[p].error_msg # "" /\ qr[p].pc = "done" /\ ~qr[p].abandoned) =>
              /\ ~qr[p].raised
              /\ n >= 3
              /\ ev[n].type = "end"
              /\ ev[n - 1] = QEv("chunk", ErrorResponse(qr[p].error_msg), <<>>)
              /\ Cardinality(FallbackChunks(ev)) = 1

\* C12: when a stream has reached its end event, the text of the assistant
\* turn it persisted is the concatenation of the chunk events it sent
C12_PersistedEqualsSent ==
    \A p \in QueryProcs :
        (Ended(p) /\ qr[p].chat_id \in DOMAIN chat_history) =>
            LET messages == chat_history[qr[p].chat_id].messages
            IN /\ Len(messages) >= 1
               /\ messages[Len(messages)].sender = "bot"
               /\ messages[Len(messages)].text = SentText(qr[p].events)

\* C14: when the consumer abandoned the stream before its end event, the
\* conversation holds no assistant turn of that exchange
C14_AbandonedNotPersisted ==
    \A p \in QueryProcs :
        (qr[p].abandoned /\ qr[p].chat_id \in DOMAIN chat_history) =>
            LET messages == chat_history[qr[p].chat_id].messages
            IN Len(messages) >= 1 => messages[Len(messages)].sender # "bot"

\* every element of the ingestion is in the docstore and in its index
StoredAll(p) ==
    \A j \in 1..Len(up[p].elems) :
        /\ up[p].elems[j].doc_id \in DOMAIN docstore
        /\ SummaryDoc(up[p].elems[j]) \in up[p].vs

\* save_local of the ingestion has returned: the persisted index holds its
\* summary documents
IndexSaved(p) ==
    /\ Emitted(p, "saving")
    /\ up[p].exc # "save_local"
    /\ indexFile
    /\ \A j \in 1..Len(up[p].elems) : SummaryDoc(up[p].elems[j]) \in diskIndex

\* documents.json holds the record the ingestion wrote
ManifestWritten(p) ==
    /\ up[p].record # NoRecord
    /\ \E i \in 1..Len(documents) : documents[i] = up[p].record

\* chat_history.json holds the conversation the ingestion created
ChatWritten(p) ==
    /\ up[p].chat # NoChat
    /\ up[p].chat.id \in DOMAIN chat_history
    /\ chat_history[up[p].chat.id] = up[p].chat

\* C19: complete is emitted only after the conversation was written, the
\* conversation only after the manifest, the manifest only after the index
\* was saved, and the index only after every element was written to both stores
C19_CompleteAfterAllWrites ==
    \A p \in UploadProcs :
        /\ Completed(p) => ChatWritten(p)
        /\ ChatWritten(p) => ManifestWritten(p)
        /\ ManifestWritten(p) => IndexSaved(p)
        /\ IndexSaved(p) => StoredAll(p)

\* a completed ingestion of two elements, all four writes in place
C19_Witness ==
    \E p \in UploadProcs :
        /\ Completed(p)
        /\ Len(up[p].elems) >= 2
        /\ ChatWritten(p) /\ ManifestWritten(p) /\ IndexSaved(p) /\ StoredAll(p)

\* the conversations of a history that are linked to a document id
ChatsIn(history, document_id) ==
    {c \in DOMAIN history : history[c].document_id = document_id}

\* the conversations linked to a document id
ChatsOf(document_id) == ChatsIn(chat_history, document_id)

\* the ids of the manifest records / the document ids of the uploaded files
RecordIds(docs) == {docs[i].id : i \in 1..Len(docs)}
FileIds(fs) == {f.stem : f \in fs}

C18_LastDeletionRemovesDocument ==
    \A p \in DeleteProcs :
        (dl[p].pc = "done" /\ dl[p].http = 200) =>
            /\ \A f \in files : ChatsOf(f.stem) # {}
            /\ \A x \in RecordIds(documents) : ChatsOf(x) # {}

\* C20: an ingestion that emitted complete added exactly one conversation to
\* the history it read, with an id that history did not have, no turns and
\* the display name as title; an ingestion that ended in error added none
C20_OneNewConversation ==
    \A p \in UploadProcs :
        /\ Completed(p) =>
              /\ up[p].chat.id \notin DOMAIN up[p].chats
              /\ DOMAIN chat_history = (DOMAIN up[p].chats) \cup {up[p].chat.id}
              /\ ChatsOf(up[p].doc_id) = {up[p].chat.id}
              /\ chat_history[up[p].chat.id].messages = <<>>
              /\ chat_history[up[p].chat.id].title = up[p].filename
        /\ Emitted(p, "error") => ChatsOf(up[p].doc_id) = {}

\* a completed ingestion whose conversation joined an earlier one
C20_Witness ==
    \E p \in UploadProcs :
        /\ Completed(p)
        /\ DOMAIN up[p].chats # {}
        /\ Cardinality(DOMAIN chat_history) = 2

\* the assistant turn answer_generator builds
BotMessage(q) == [sender |-> "bot", text |-> q.full_answer, chunks |-> q.summary_docs]

\* C13: the write that precedes the end event of a stream leaves the
\* conversation the query was addressed to in chat_history.json, with the
\* assistant turn of that query as its one new, last turn, whatever ran
\* while the answer was streaming
C13_EndedStreamAppendedTurn ==
    [][\A p \in QueryProcs :
          (qr[p].pc = "save_write" /\ qr'[p].pc = "end") =>
              /\ qr[p].chat_id \in DOMAIN chat_history'
              /\ LET messages == chat_history'[qr[p].chat_id].messages
                 IN /\ Len(messages) >= 2
                    /\ messages[Len(messages)] = BotMessage(qr[p])
                    /\ messages[Len(messages) - 1].sender = "user"]_vars

\* seq1 is an initial part of seq2
IsPrefix(seq1, seq2) ==
    /\ Len(seq1) <= Len(seq2)
    /\ \A i \in 1..Len(seq1) : seq1[i] = seq2[i]

\* the display names of the manifest records
RecordNames(docs) == {docs[i].name : i \in 1..Len(docs)}

\* this step is the chat_history.json write of a deletion of chat c
DeletesChat(c) ==
    \E d \in DeleteProcs :
        dl[d].pc = "chat_write" /\ dl[d].chat_id = c /\ dl'[d].pc # "chat_write"

\* this step is the chat_history.json write of an ingestion creating chat c
CreatesChat(c) ==
    \E p \in UploadProcs : up[p].pc = "chat_write" /\ up'[p].chat.id = c

\* this step is the documents.json write of a deletion
DeletesDocument == \E d \in DeleteProcs : dl[d].pc = "doc_write" /\ dl'[d].pc = "done"

\* C15: whatever the interleaving, no write undoes another handler's
\* mutation: a conversation leaves chat_history.json only by its deletion and
\* enters it only by the ingestion that creates it, the turns of a stored
\* conversation are only appended to, and a record leaves documents.json
\* only by a deletion
C15_NoLostUpdate ==
    [][/\ \A c \in (DOMAIN chat_history) \ (DOMAIN chat_history') : DeletesChat(c)
       /\ \A c \in (DOMAIN chat_history') \ (DOMAIN chat_history) : CreatesChat(c)
       /\ \A c \in (DOMAIN chat_history) \cap (DOMAIN chat_history') :
             IsPrefix(chat_history[c].messages, chat_history'[c].messages)
       /\ RecordNames(documents) \ RecordNames(documents') # {} => DeletesDocument]_vars

\* both ingestions have emitted complete
BothComplete(p, q) == p # q /\ Completed(p) /\ Completed(q)

\* C16: when two ingestions have both emitted complete, the persisted index
\* is the in-memory copy of one of them, as that one loaded and extended it,
\* with all elements of that one; what the other added is not merged in, and
\* the elements of both are in the docstore
C16_LastSaveWins ==
    \A p, q \in UploadProcs :
        BothComplete(p, q) =>
            /\ diskIndex \in {up[p].vs, up[q].vs}
            /\ \E r \in {p, q} : ElementIds(r) \subseteq IndexedIds(diskIndex)
            /\ (ElementIds(p) \cup ElementIds(q)) \subseteq DOMAIN docstore

\* both ingestions emitted complete, and the elements one of them wrote are in
\* the docstore but not in the persisted index
C16_Witness ==
    \E p, q \in UploadProcs :
        /\ BothComplete(p, q)
        /\ ElementIds(q) # {}
        /\ ElementIds(q) \subseteq DOMAIN docstore
        /\ ElementIds(q) \cap IndexedIds(diskIndex) = {}
        /\ ElementIds(p) \subseteq IndexedIds(diskIndex)

\* this step belongs to the handler of upload p / of query p
UploadStep(p) == up'[p] # up[p] /\ up'[p].pc # "idle"
QueryStep(p) == qr'[p] # qr[p] /\ qr'[p].pc # "idle"

\* C21: no step of an upload or a query whose api key the provider does not
\* accept stores a file, appends a turn or changes the docstore, the index,
\* the manifest or the conversation store
C21_InvalidCredentialRejected ==
    [][/\ \A p \in UploadProcs :
             (UploadStep(p) /\ up'[p].key # "good") =>
                 UNCHANGED <<files, docstore, indexFile, diskIndex, documents,
                             chat_history>>
       /\ \A p \in QueryProcs :
             (QueryStep(p) /\ qr'[p].key # "good") =>
                 UNCHANGED <<files, docstore, indexFile, diskIndex, documents,
                             chat_history>>]_vars

\* the context prefix summarize_text_async puts before chunk 0 of page 1
ContextPrefix == "This document/research paper discusses: "

\* C23: every text document of the persisted index has as page content the
\* original text of the stored element with its id, unchanged, or behind the
\* context prefix when the element is chunk 0 of page 1
C23_TextSummaryIsOriginal ==
    \A d \in diskIndex :
        (d.type = "text" /\ d.doc_id \in DOMAIN docstore) =>
            LET elem == docstore[d.doc_id]
            IN d.page_content =
                 [tag |-> IF elem.page = 1 /\ elem.idx = 0 THEN ContextPrefix ELSE "as-is",
                  body |-> elem.original]

\* the element list of the ingestion has been built: the generator has
\* yielded its first "summarizing" event
Extracted(p) == Emitted(p, "summarizing")

\* the text elements of one page, in list order
TextsOfPage(elems, pg) == SelectSeq(elems, LAMBDA e : e.type = "text" /\ e.page = pg)

\* C24: from the end of extraction on, through summarization in any
\* completion order and the assignment of the summaries, the elements of one
\* kind stay in the order their ids were drawn, every element has the page and
\* chunk index of the content it was extracted from, the chunk indices of a
\* page are 0..n-1 in list order, and the docstore holds the same attribution
C24_OrderAndAttributionKept ==
    \A p \in UploadProcs :
        Extracted(p) =>
            LET e == up[p].elems
            IN /\ Len(e) = up[p].raw.imgs + up[p].raw.tabs + SumTo(up[p].raw.txt, MaxPages)
               /\ \A i, j \in 1..Len(e) :
                    (i < j /\ e[i].type = e[j].type) => e[i].doc_id < e[j].doc_id
               /\ \A j \in 1..Len(e) :
                    /\ e[j].original.kind = e[j].type
                    /\ e[j].original.page = e[j].page
                    /\ e[j].original.n = e[j].idx
                    /\ e[j].doc_id \in DOMAIN docstore =>
                         /\ docstore[e[j].doc_id].page = e[j].page
                         /\ docstore[e[j].doc_id].idx = e[j].idx
                         /\ docstore[e[j].doc_id].original = e[j].original
               /\ \A pg \in 1..MaxPages :
                    LET ts == TextsOfPage(e, pg)
                    IN /\ Len(ts) = up[p].raw.txt[pg]
                       /\ \A i \in 1..Len(ts) : ts[i].idx = i - 1

\* the summaries of two chunks of one page were assigned after the task of
\* the second chunk completed first
C24_Witness ==
    \E p \in UploadProcs :
        /\ Assigned(p)
        /\ Len(up[p].elems) = 2
        /\ up[p].elems[1].type = "text" /\ up[p].elems[2].type = "text"
        /\ up[p].elems[1].page = up[p].elems[2].page
        /\ up[p].summaries[1] = up[p].taskResult[2]
        /\ up[p].taskResult[1] # up[p].taskResult[2]

\* the events of the completion loop: "Summarized element i/total"
ProgressEvents(events) ==
    SelectSeq(events, LAMBDA e : e.step = "summarizing" /\ e.message[1] = "Summarized")

\* the "summarizing" events that carry no count
OpeningEvents(events) ==
    SelectSeq(events, LAMBDA e : e.step = "summarizing" /\ e.message[1] # "Summarized")

\* C25: the completion loop of a document with N elements has emitted one
\* event per completed task, the k-th carrying k/N, and N of them once every
\* task has completed; the one other "summarizing" event, which opens the
\* stage, carries no count
C25_OneProgressEventPerElement ==
    \A p \in UploadProcs :
        LET pe == ProgressEvents(up[p].events)
            N == Len(up[p].elems)
        IN /\ ~Extracted(p) => pe = <<>>
           /\ Extracted(p) =>
                /\ Len(pe) = Len(up[p].summaries)
                /\ Len(pe) = N - Cardinality(up[p].todo)
                /\ \A k \in 1..Len(pe) : pe[k].message = <<"Summarized", k, N>>
                /\ up[p].pc # "summarizing" => Len(pe) = N
                /\ OpeningEvents(up[p].events) = <<Ev("summarizing", "Starting", 0, N)>>

\* the two tasks of a document have completed, the second one first
C25_Witness ==
    \E p \in UploadProcs :
        /\ up[p].pc = "summarizing"
        /\ up[p].todo = {}
        /\ Len(up[p].elems) = 2
        /\ Len(ProgressEvents(up[p].events)) = 2
        /\ up[p].summaries[1] = up[p].taskResult[2]
        /\ up[p].taskResult[1] # up[p].taskResult[2]

\* the chunk events of a stream, in order
ChunkEvents(events) == SelectSeq(events, LAMBDA e : e.type = "chunk")

\* the model's stream of the query ended without raising and without any
\* content, and the apology was sent
ApologyOnly(q) ==
    /\ q.pc \in {"save_read", "save_write", "end", "done"}
    /\ q.error_msg = ""
    /\ ChunkEvents(q.events) = <<QEv("chunk", Apology, <<>>)>>

\* C29: when the model's stream ends without having raised or produced any
\* content, the step that ends it sends the apology as the one chunk event of
\* the stream and makes it the answer, and the write that follows persists an
\* assistant turn with the apology as its text
C29_EmptyStreamApology ==
    /\ [][\A p \in QueryProcs :
            /\ (/\ qr[p].pc = "stream" /\ qr'[p].pc = "save_read"
                /\ qr[p].full_answer = <<>> /\ qr'[p].error_msg = "") =>
                   /\ ChunkEvents(qr[p].events) = <<>>
                   /\ qr'[p].events = Append(qr[p].events, QEv("chunk", Apology, <<>>))
                   /\ qr'[p].full_answer = Apology
            /\ (qr[p].pc = "save_write" /\ qr'[p].pc = "end" /\ ApologyOnly(qr[p])) =>
                   LET messages == chat_history'[qr[p].chat_id].messages
                   IN /\ Len(messages) = Len(chat_history[qr[p].chat_id].messages) + 1
                      /\ messages[Len(messages)].sender = "bot"
                      /\ messages[Len(messages)].text = Apology]_vars
    /\ [](\A p \in QueryProcs : ApologyOnly(qr[p]) => qr[p].full_answer = Apology)

\* a stream of empty fragments only has ended: one chunk event, the apology,
\* which is the text of the persisted assistant turn
C29_Witness ==
    \E p \in QueryProcs :
        /\ Ended(p)
        /\ qr[p].received = MaxFragments
        /\ ApologyOnly(qr[p])
        /\ LET messages == chat_history[qr[p].chat_id].messages
           IN messages[Len(messages)] = [sender |-> "bot", text |-> Apology,
                                         chunks |-> qr[p].summary_docs]

\* C30: whenever no request is being handled, every conversation is linked
\* to the id of a record of the manifest, and the conversation an ingestion
\* sends with complete is linked to the id of the record it sends with it
C30_ConversationLinksRecord ==
    /\ Quiet => \A c \in DOMAIN chat_history :
                   chat_history[c].document_id \in RecordIds(documents)
    /\ \A p \in UploadProcs :
          Completed(p) => up[p].chat.document_id = up[p].record.id

\* the query has run its similarity search and sent the context event
Searched(q) == Len(q.events) >= 1 /\ q.events[1].type = "context"

\* the query has resolved its matches and built its prompt
Built(q) == Searched(q) /\ q.pc \notin {"build"} /\ q.invoked

\* C26: a step that creates the index file leaves exactly the placeholder in
\* it; the placeholder has no element id; with a key the provider accepts the
\* retrieval step of a query can complete; a search over an index holding the
\* placeholder alone matches the placeholder alone, and no match without an
\* element id gives the prompt an element, so such a query builds its prompt
\* from the fixed text and no image
C26_FreshIndexPlaceholder ==
    /\ [][(~indexFile /\ indexFile') => diskIndex' = {Placeholder}]_vars
    /\ [](/\ Placeholder.doc_id = NoId
          /\ \A p \in QueryProcs :
               LET q == qr[p]
               IN /\ (q.pc = "retrieve" /\ q.key = "good") =>
                        ENABLED (Retrieve(p) /\ qr'[p].pc = "build")
                  /\ (q.pc = "build" /\ diskIndex = {Placeholder}) =>
                        q.summary_docs = <<Placeholder>>
                  /\ Built(q) =>
                        /\ Len(q.originals) <=
                             Len(SelectSeq(q.summary_docs, LAMBDA d : d # Placeholder))
                        /\ (\A i \in 1..Len(q.summary_docs) :
                               q.summary_docs[i] = Placeholder) =>
                              /\ q.originals = <<>>
                              /\ q.context = <<[page |-> NoPage, original |-> NoContent]>>
                              /\ q.prompt_images = <<>>)

\* a query on an index that holds the placeholder alone has sent its context
\* event with that one match and built its prompt
C26_Witness ==
    \E p \in QueryProcs :
        /\ qr[p].pc = "stream"
        /\ diskIndex = {Placeholder}
        /\ indexFile
        /\ qr[p].events = <<QEv("context", <<>>, <<Placeholder>>)>>
        /\ qr[p].originals = <<>>

\* the matches of a search that carry an element id the docstore resolves
Resolving(summary_docs) ==
    SelectSeq(summary_docs, LAMBDA d : d.doc_id # NoId /\ d.doc_id \in DOMAIN docstore)

\* an element as the context string shows it: "[From Page n]" and the original
PageLabelled(e) == [page |-> e.page, original |-> e.original]

\* C27: the step that resolves the matches does not raise; the elements it
\* hands on are the stored elements of the matched ids the docstore resolves,
\* one each, in match order, and the context string holds the texts and then
\* the tables among them, each kind in match order, or the fixed text when
\* there is none
C27_UnresolvedIdsDiscarded ==
    /\ [][\A p \in QueryProcs :
            (qr[p].pc = "build" /\ qr'[p].pc # "build" /\ ~qr'[p].abandoned) =>
                (qr'[p].pc = "stream" /\ ~qr'[p].raised)]_vars
    /\ [](\A p \in QueryProcs :
            LET q == qr[p]
                found == Resolving(q.summary_docs)
                texts == SelectSeq(found, LAMBDA d : d.type = "text")
                tables == SelectSeq(found, LAMBDA d : d.type = "table")
                parts == texts \o tables
            IN Built(q) =>
                 /\ Len(q.originals) = Len(found)
                 /\ \A i \in 1..Len(found) : q.originals[i] = docstore[found[i].doc_id]
                 /\ parts # <<>> =>
                      /\ Len(q.context) = Len(parts)
                      /\ \A i \in 1..Len(parts) :
                           q.context[i] = PageLabelled(docstore[parts[i].doc_id])
                 /\ parts = <<>> =>
                      q.context = <<[page |-> NoPage, original |-> NoContent]>>)

\* a query whose first match has no docstore entry while a later text and a
\* later image resolve has built its prompt
C27_Witness ==
    \E p \in QueryProcs :
        LET q == qr[p]
        IN /\ Built(q)
           /\ Len(q.summary_docs) >= 3
           /\ q.summary_docs[1].doc_id # NoId
           /\ q.summary_docs[1].doc_id \notin DOMAIN docstore
           /\ \E i, j \in 1..Len(q.originals) :
                q.originals[i].type = "text" /\ q.originals[j].type = "image"
           /\ Len(q.context) = 1 /\ q.context[1].original.kind = "text"

\* a query none of whose matched ids has a docstore entry has built its
\* prompt from the fixed text
C27_WitnessAllMissing ==
    \E p \in QueryProcs :
        LET q == qr[p]
        IN /\ Built(q)
           /\ DocIds(q.summary_docs) # <<>>
           /\ \A i \in 1..Len(q.summary_docs) :
                q.summary_docs[i].doc_id \notin DOMAIN docstore
           /\ q.originals = <<>>
           /\ q.context = <<[page |-> NoPage, original |-> NoContent]>>

\* the smaller of two numbers
Min(a, b) == IF a <= b THEN a ELSE b

\* C28: the prompt of a query whose resolved elements hold n images has
\* min(n, ImageCap) image parts, the i-th being the i-th image in match order
C28_ImageCap ==
    \A p \in QueryProcs :
        LET q == qr[p]
            images == SelectSeq(q.originals, LAMBDA e : e.type = "image")
        IN Built(q) =>
             /\ Len(q.prompt_images) = Min(Len(images), ImageCap)
             /\ \A i \in 1..Len(q.prompt_images) :
                  q.prompt_images[i] = images[i].original

\* a query whose matches are five images, all resolved, has built its prompt
\* with the first four
C28_Witness ==
    \E p \in QueryProcs :
        LET q == qr[p]
            images == SelectSeq(q.originals, LAMBDA e : e.type = "image")
        IN /\ Built(q)
           /\ Len(images) = ImageCap + 1
           /\ Len(q.prompt_images) = ImageCap
           /\ images[ImageCap + 1].original \notin
                 {q.prompt_images[i] : i \in 1..Len(q.prompt_images)}

\* C22: whatever the interleaving of the handlers, a step that keeps a
\* conversation in chat_history.json keeps the turns it had as an initial part
\* of the turns it has afterwards, and every assistant turn directly follows
\* a user turn
C22_TurnsOnlyAppended ==
    /\ [][\A c \in (DOMAIN chat_history) \cap (DOMAIN chat_history') :
            IsPrefix(chat_history[c].messages, chat_history'[c].messages)]_vars
    /\ [](\A c \in DOMAIN chat_history :
            LET messages == chat_history[c].messages
            IN \A i \in 1..Len(messages) :
                 /\ messages[i].sender \in {"user", "bot"}
                 /\ messages[i].sender = "bot" =>
                      (i > 1 /\ messages[i - 1].sender = "user"))

\* C31: the step of a deletion that finds its chat id missing from the
\* history it read answers 404 and leaves chat_history.json, documents.json
\* and the uploaded files as they are
C31_DeleteUnknownChatNotFound ==
    [][\A p \in DeleteProcs :
          (/\ dl[p].pc = "chat_write" /\ dl'[p].pc # "chat_write"
           /\ dl[p].chat_id \notin DOMAIN dl[p].chats) =>
              /\ dl'[p].http = 404
              /\ UNCHANGED <<chat_history, documents, files>>]_vars

\* GET /chats/{chat_id}: the stored conversation, or 404 when the id is not
\* a key of chat_history.json
GetChatHistory(chat_id) ==
    IF chat_id \notin DOMAIN chat_history
    THEN [http |-> 404, messages |-> <<>>]
    ELSE [http |-> 200, messages |-> chat_history[chat_id].messages]

HoldsTurn(messages, turn) == \E i \in 1..Len(messages) : messages[i] = turn

\* C32: when a stream emits `end`, a read of its conversation that finds the
\* conversation returns the assistant turn of that stream among its turns
C32_EndAfterTurnWritten ==
    [][\A p \in QueryProcs :
          (qr[p].pc = "end" /\ Ended(p)') =>
              LET read == GetChatHistory(qr[p].chat_id)'
              IN read.http = 200 => HoldsTurn(read.messages, BotMessage(qr[p]))]_vars

====
